---- MODULE Spec2Model ----
(***************************************************************************)
(* Model of rhubarb_lipsync: the RhubarbCommandWrapper process driver      *)
(* (rhubarb/rhubarb_command_handling.py) together with the external        *)
(* rhubarb process it starts, polls and terminates.                        *)
(*                                                                         *)
(* The driver's fields keep their source names.  The operating system side *)
(* (the child processes and their pipes) is the variable procs.  A caller  *)
(* is single threaded: pc tells whether it is between two calls ("idle")   *)
(* or sits inside lipsync_check_progress waiting in next(process.stderr).  *)
(*                                                                         *)
(* The second part is the CueProcessor (rhubarb/cue_processor.py): the     *)
(* four passes of optimize_cues over a list of cues, with the arithmetic   *)
(* of binary floating point at a small precision.                          *)
(*                                                                         *)
(* The third part is the RhubarbParser (the static parsers at the top of   *)
(* rhubarb_command_handling.py) applied to arbitrary short texts: there    *)
(* stdout or stderr holds the text handed to the parser.                   *)
(*                                                                         *)
(* The fourth part is the track navigation of the BakingContext            *)
(* (blender/baking_operators.py): next_track over the two NLA tracks of    *)
(* the current object.                                                     *)
(***************************************************************************)
EXTENDS Integers, Sequences, FiniteSets, TLC

VARIABLES
    executable_path,  \* state of the configured executable: see ExeStates
    process,          \* self.process: 0 is None, otherwise an index of procs
    stdout,           \* self.stdout: sequence of text chunks
    stderr,           \* self.stderr: sequence of lines
    last_exit_code,   \* self.last_exit_code: <<>> is None, <<c>> is code c
    procs,            \* every child process spawned so far
    pc,               \* "idle" or "blocked" (inside next(self.process.stderr))
    ret,              \* what the last finished call did (outcome and branch)
    frame_cfg,        \* CueProcessor.frame_cfg
    cue_frames,       \* CueProcessor.cue_frames: the cues with their blend_in
    min_cue_duration, \* optimize_cues' first argument
    blend_in_time,    \* optimize_cues' second argument
    passes,           \* how many passes have run (two runs of optimize_cues)
    report,           \* the count each of these passes returned, in order
    cue_exc,          \* the exception that left a pass, "none" otherwise
    track1,           \* BakingContext.track1 of the current object
    track2,           \* BakingContext.track2 of the current object
    track_index       \* BakingContext.track_index

driverVars == <<executable_path, process, stdout, stderr, last_exit_code, procs, pc, ret>>

cueVars == <<frame_cfg, cue_frames, min_cue_duration, blend_in_time, passes, report, cue_exc>>

bakeVars == <<track1, track2, track_index>>

vars == <<executable_path, process, stdout, stderr, last_exit_code, procs, pc, ret,
          frame_cfg, cue_frames, min_cue_duration, blend_in_time, passes, report,
          cue_exc, track1, track2, track_index>>

----------------------------------------------------------------------------
(* Bounds of the model *)

\* How many child processes are spawned in one behaviour.
MaxProcs == 2
\* How many stderr lines one child process emits.
MaxLines == 2

----------------------------------------------------------------------------
(* Values *)

None == <<>>
Some(x) == <<x>>

Range(s) == {s[i] : i \in 1..Len(s)}

\* executable_path is unset (falsy), names nothing, names a directory, or
\* names a regular file.
ExeStates == {"unset", "missing", "notfile", "ok"}

\* Exit code of a process killed by SIGTERM, as Popen reports it.
SIGTERM_CODE == -15
\* Exit codes the tool itself ends with: 0 success, 1 failure.
ExitCodes == {0, 1}

\* The stderr lines the tool can write.  "garbage" is a line that is not JSON.
StatusLines == {"start", "progress29", "failBoom", "garbage"}

NoExc == [type |-> "none", msg |-> <<>>]
Exc(t, m) == [type |-> t, msg |-> m]

----------------------------------------------------------------------------
(* RhubarbParser *)

\* A text is a sequence: stderr of lines, as str.splitlines yields them (""
\* is an empty line), stdout of the chunks the tool wrote, a version banner
\* of characters and words.  The empty text is <<>>.

\* The empty mapping {}: the record with no field.
EmptyMapping == [x \in {} |-> x]

\* What json.loads found, or the exception it raised.
Json(kind, value) == [exc |-> "none", kind |-> kind, value |-> value]

JsonError(exc) == [exc |-> exc, kind |-> "none", value |-> EmptyMapping]

\* json.loads of one document: a status line or a chunk of stdout.  A JSON
\* object is a record, an array a sequence; a number is given in hundredths
\* (29 is 0.29).  "deep" is a document of brackets nested deeper than the
\* recursion limit of the interpreter; every other text is not JSON.
json_loads_document(doc) ==
    CASE doc = "start" ->
            Json("object", [type |-> "start", file |-> "1.ogg", log |-> "Info"])
      [] doc = "progress29" -> Json("object", [type |-> "progress", value |-> 29])
      [] doc = "failBoom" -> Json("object", [type |-> "failure", reason |-> "boom"])
      [] doc = "5" -> Json("number", 500)
      [] doc = "{}" -> Json("object", EmptyMapping)
      [] doc = "[]" -> Json("array", <<>>)
      [] doc = "cues0" -> Json("object", [mouthCues |-> <<>>])
      [] doc = "mouthCues" ->
            Json("object",
                 [metadata |-> [soundFile |-> "1.ogg", duration |-> 568],
                  mouthCues |-> <<[start |-> 0, end |-> 28, value |-> "X"],
                                  [start |-> 28, end |-> 50, value |-> "A"]>>])
      [] doc = "deep" -> JsonError("RecursionError")
      [] OTHER -> JsonError("JSONDecodeError")

\* json.loads of a text of several chunks: the scanner reads the first
\* document and then finds extra data.
json_loads(text) ==
    IF Len(text) = 0 THEN JsonError("JSONDecodeError")
    ELSE IF Len(text) = 1 \/ json_loads_document(text[1]).exc # "none"
    THEN json_loads_document(text[1])
    ELSE JsonError("JSONDecodeError")

\* parse_status_info_line (lines 39-50): the exception that leaves it,
\* "none" when it returns.  Only a JSONDecodeError is caught.
parse_status_info_line_raises(stderr_line) ==
    IF stderr_line = "" THEN "none"
    ELSE IF json_loads_document(stderr_line).exc = "JSONDecodeError" THEN "none"
    ELSE json_loads_document(stderr_line).exc

\* parse_status_info_line (lines 39-50): what it returns.
parse_status_info_line(stderr_line) ==
    IF stderr_line = "" THEN EmptyMapping
    ELSE json_loads_document(stderr_line).value

\* parse_status_infos (lines 32-37): the exception that leaves the list
\* comprehension, which is that of the first line that raises.
parse_status_infos_raises(text) ==
    LET raising == {i \in 1..Len(text) : parse_status_info_line_raises(text[i]) # "none"}
    IN IF raising = {} THEN "none"
       ELSE parse_status_info_line_raises(
                text[CHOOSE i \in raising : \A k \in raising : i <= k])

\* parse_status_infos (lines 32-37): one entry per line of the text, in line
\* order ({} for the empty text).
parse_status_infos(text) ==
    [i \in 1..Len(text) |-> parse_status_info_line(text[i])]

\* parse_lipsync_json (lines 53-65): [exc, value], the exception that leaves
\* it and what it returns.  j["mouthCues"] raises a TypeError when j is not
\* an object and a KeyError when the object has no such key.
parse_lipsync_json(text) ==
    LET j == json_loads(text)
    IN IF Len(text) = 0 THEN [exc |-> "none", value |-> EmptyMapping]
       ELSE IF j.exc = "JSONDecodeError" THEN [exc |-> "none", value |-> EmptyMapping]
       ELSE IF j.exc # "none" THEN [exc |-> j.exc, value |-> EmptyMapping]
       ELSE IF j.kind # "object" THEN [exc |-> "TypeError", value |-> EmptyMapping]
       ELSE IF "mouthCues" \notin DOMAIN j.value
       THEN [exc |-> "KeyError", value |-> EmptyMapping]
       ELSE [exc |-> "none", value |-> j.value.mouthCues]

\* by_type = {j["type"]: j for j in status_lines if j}: the last non-empty
\* mapping of each type wins.
HasType(status_lines, t) ==
    \E i \in 1..Len(status_lines) :
        /\ DOMAIN status_lines[i] # {}
        /\ status_lines[i].type = t

by_type(status_lines, t) ==
    LET idx == {i \in 1..Len(status_lines) :
                   DOMAIN status_lines[i] # {} /\ status_lines[i].type = t}
        last == CHOOSE i \in idx : \A k \in idx : k <= i
    IN status_lines[last]

\* int(v*100) in IEEE double arithmetic, v given in hundredths: the product
\* falls just below the integer for 0.29, 0.57 and 0.58 and is truncated.
IntTimes100(v) == IF v \in {29, 57, 58} THEN v - 1 ELSE v

\* The character classes \s and \d of the regular expression.
SpaceChars == {" ", "\n"}

DigitChars == {"0", "1", "3"}

\* Where the longest run of characters of the class that starts at i ends
\* (i - 1 when text[i] is not of the class): the greedy + and *.
RunEnd(text, i, class) ==
    LET stops == {j \in i..Len(text) : text[j] \notin class}
    IN IF stops = {} THEN Len(text)
       ELSE (CHOOSE j \in stops : \A k \in stops : j <= k) - 1

IsChar(text, i, c) == i <= Len(text) /\ text[i] = c

\* version_info_rx with \s* in place of \s+: the version may follow the word
\* directly.
version_info_rx_match_without_space(text, i) ==
    LET space_end == RunEnd(text, i + 1, SpaceChars)
        major_end == RunEnd(text, space_end + 1, DigitChars)
        minor_end == RunEnd(text, major_end + 2, DigitChars)
        patch_end == RunEnd(text, minor_end + 2, DigitChars)
    IN IF /\ IsChar(text, i, "version")
          /\ major_end >= space_end + 1
          /\ IsChar(text, major_end + 1, ".")
          /\ minor_end >= major_end + 2
          /\ IsChar(text, minor_end + 1, ".")
          /\ patch_end >= minor_end + 2
       THEN Some(<<space_end + 1, patch_end>>)
       ELSE None

\* version_info_rx (line 17) tried at position i of the text: None, or
\* Some(<<first, last>>), the positions of the group 'ver'.  "version" is
\* one element of the text.
version_info_rx_match(text, i) ==
    LET space_end == RunEnd(text, i + 1, SpaceChars)
        major_end == RunEnd(text, space_end + 1, DigitChars)
        minor_end == RunEnd(text, major_end + 2, DigitChars)
        patch_end == RunEnd(text, minor_end + 2, DigitChars)
    IN IF /\ IsChar(text, i, "version")
          /\ space_end >= i + 1
          /\ major_end >= space_end + 1
          /\ IsChar(text, major_end + 1, ".")
          /\ minor_end >= major_end + 2
          /\ IsChar(text, minor_end + 1, ".")
          /\ patch_end >= minor_end + 2
       THEN Some(<<space_end + 1, patch_end>>)
       ELSE None

\* parse_version_info (lines 26-30): re.search takes the leftmost match;
\* the empty string when there is none.
parse_version_info(text) ==
    LET matches == {i \in 1..Len(text) : version_info_rx_match(text, i) # None}
        first == CHOOSE i \in matches : \A k \in matches : i <= k
        ver == version_info_rx_match(text, first)[1]
    IN IF matches = {} THEN <<>> ELSE SubSeq(text, ver[1], ver[2])

----------------------------------------------------------------------------
(* The child processes *)

NewProc(kind) ==
    [kind |-> kind, state |-> "running", code |-> None, signalled |-> FALSE,
     open |-> TRUE, errPipe |-> <<>>, outPipe |-> <<>>, emitted |-> 0]

\* Popen.poll(): the exit code once the process has exited, else None.
poll(p) == IF p.state = "exited" THEN p.code ELSE None

\* Popen.terminate(): SIGTERM to a process that still runs, nothing otherwise.
terminate(p) == IF p.state = "running" THEN [p EXCEPT !.signalled = TRUE] ELSE p

\* The Popen object is dropped: its pipes are closed, what they held is lost.
Dropped(p) == [p EXCEPT !.open = FALSE, !.errPipe = <<>>, !.outPipe = <<>>, !.emitted = 0]

\* What the tool writes to stdout before it exits.
StdoutOf(kind, code) ==
    IF code # 0 THEN <<>>
    ELSE IF kind = "version"
    THEN <<"Rhubarb Lip Sync", " ", "version", " ", "1", ".", "1", "3", ".", "0", "\n">>
    ELSE <<"mouthCues">>

----------------------------------------------------------------------------
(* RhubarbCommandWrapper: the methods as functions of the driver's state.  *)
(* A state m is [process, stdout, stderr, last_exit_code, procs, exc];     *)
(* exc is the exception that left the method, NoExc when it returned.      *)

Cur ==
    [process |-> process, stdout |-> stdout, stderr |-> stderr,
     last_exit_code |-> last_exit_code, procs |-> procs, exc |-> NoExc]

Raised(m) == m.exc.type # "none"

errors(exe) ==
    CASE exe = "unset" -> "Configure the Rhubarb lipsync executable file path"
      [] exe = "missing" -> "doesn't exist"
      [] exe = "notfile" -> "is not a valid file"
      [] OTHER -> ""

was_started(m) == m.process # 0

has_finished(m) == m.last_exit_code # None

\* close_process that sends the signal but keeps the handle.
close_process_keeps_handle(m) ==
    IF was_started(m)
    THEN [m EXCEPT !.procs[m.process] = terminate(@)]
    ELSE m

\* close_process that takes a started process for granted.
close_process_needs_process(m) ==
    IF was_started(m)
    THEN [m EXCEPT !.procs[m.process] = Dropped(terminate(@)), !.process = 0]
    ELSE [m EXCEPT !.exc = Exc("AttributeError", <<"terminate">>)]

\* close_process that forgets the handle without terminate().
close_process_without_terminate(m) ==
    IF was_started(m)
    THEN [m EXCEPT !.procs[m.process] = Dropped(@), !.process = 0]
    ELSE [m EXCEPT !.process = 0]

\* close_process that also empties the collected output.
close_process_clears_output(m) ==
    IF was_started(m)
    THEN [m EXCEPT !.procs[m.process] = Dropped(terminate(@)), !.process = 0,
                   !.stdout = <<>>, !.stderr = <<>>]
    ELSE [m EXCEPT !.process = 0, !.stdout = <<>>, !.stderr = <<>>]

close_process(m) ==
    IF was_started(m)
    THEN [m EXCEPT !.procs[m.process] = Dropped(terminate(@)), !.process = 0]
    ELSE [m EXCEPT !.process = 0]

\* open_process that resets the buffers before it checks errors().
open_process_resets_first(m, exe, kind) ==
    IF was_started(m) THEN [m EXCEPT !.exc = Exc("AssertionError", <<>>)]
    ELSE IF errors(exe) # ""
    THEN [m EXCEPT !.stdout = <<>>, !.stderr = <<>>, !.last_exit_code = None,
                   !.exc = Exc("AssertionError", <<errors(exe)>>)]
    ELSE [m EXCEPT !.stdout = <<>>, !.stderr = <<>>, !.last_exit_code = None,
                   !.procs = Append(@, NewProc(kind)),
                   !.process = Len(m.procs) + 1]

\* open_process that leaves the exit code of the session before in place.
open_process_keeps_exit_code(m, exe, kind) ==
    IF was_started(m) THEN [m EXCEPT !.exc = Exc("AssertionError", <<>>)]
    ELSE IF errors(exe) # "" THEN [m EXCEPT !.exc = Exc("AssertionError", <<errors(exe)>>)]
    ELSE [m EXCEPT !.stdout = <<>>, !.stderr = <<>>,
                   !.procs = Append(@, NewProc(kind)),
                   !.process = Len(m.procs) + 1]

open_process(m, exe, kind) ==
    IF was_started(m) THEN [m EXCEPT !.exc = Exc("AssertionError", <<>>)]
    ELSE IF errors(exe) # "" THEN [m EXCEPT !.exc = Exc("AssertionError", <<errors(exe)>>)]
    ELSE [m EXCEPT !.stdout = <<>>, !.stderr = <<>>, !.last_exit_code = None,
                   !.procs = Append(@, NewProc(kind)),
                   !.process = Len(m.procs) + 1]

\* collect_output_sync that keeps stdout only.
collect_output_sync_drops_stderr(m, ignore_timeout_error, run) ==
    IF ~was_started(m) THEN [m EXCEPT !.exc = Exc("AssertionError", <<>>)]
    ELSE
      LET p == m.procs[m.process]
          ended == IF p.state = "exited" THEN p
                   ELSE [p EXCEPT !.state = "exited", !.code = run,
                                  !.outPipe = @ \o StdoutOf(p.kind, run[1])]
      IN IF p.state = "running" /\ run = None
         THEN IF ignore_timeout_error THEN close_process(m)
              ELSE [m EXCEPT !.exc = Exc("TimeoutExpired", <<>>)]
         ELSE close_process(
                [m EXCEPT !.stdout = @ \o ended.outPipe,
                          !.procs[m.process] =
                              [ended EXCEPT !.errPipe = <<>>, !.outPipe = <<>>]])

\* collect_output_sync that keeps stderr only.
collect_output_sync_drops_stdout(m, ignore_timeout_error, run) ==
    IF ~was_started(m) THEN [m EXCEPT !.exc = Exc("AssertionError", <<>>)]
    ELSE
      LET p == m.procs[m.process]
          ended == IF p.state = "exited" THEN p
                   ELSE [p EXCEPT !.state = "exited", !.code = run,
                                  !.outPipe = @ \o StdoutOf(p.kind, run[1])]
      IN IF p.state = "running" /\ run = None
         THEN IF ignore_timeout_error THEN close_process(m)
              ELSE [m EXCEPT !.exc = Exc("TimeoutExpired", <<>>)]
         ELSE close_process(
                [m EXCEPT !.stderr = @ \o ended.errPipe,
                          !.procs[m.process] =
                              [ended EXCEPT !.errPipe = <<>>, !.outPipe = <<>>]])

\* run is what the process does while communicate(timeout=1) waits for it:
\* None when it is still running after the second (TimeoutExpired), otherwise
\* Some(c), the exit code it ends with.  A process that has exited already is
\* read at once.
collect_output_sync(m, ignore_timeout_error, run) ==
    IF ~was_started(m) THEN [m EXCEPT !.exc = Exc("AssertionError", <<>>)]
    ELSE
      LET p == m.procs[m.process]
          ended == IF p.state = "exited" THEN p
                   ELSE [p EXCEPT !.state = "exited", !.code = run,
                                  !.outPipe = @ \o StdoutOf(p.kind, run[1])]
      IN IF p.state = "running" /\ run = None
         THEN IF ignore_timeout_error THEN close_process(m)
              ELSE [m EXCEPT !.exc = Exc("TimeoutExpired", <<>>)]
         ELSE close_process(
                [m EXCEPT !.stderr = @ \o ended.errPipe,
                          !.stdout = @ \o ended.outPipe,
                          !.procs[m.process] =
                              [ended EXCEPT !.errPipe = <<>>, !.outPipe = <<>>]])

\* read_process_stderr_line that polls into a local and never stores the code.
read_process_poll_unrecorded(m) ==
    IF ~was_started(m)
    THEN [m |-> [m EXCEPT !.exc = Exc("AssertionError", <<>>)], branch |-> "assert"]
    ELSE IF has_finished(m) THEN [m |-> m, branch |-> "finished"]
    ELSE
      LET code == poll(m.procs[m.process])
      IN IF code # None
         THEN LET m2 == collect_output_sync(m, TRUE, None)
              IN [m |-> IF code # Some(0) /\ ~Raised(m2)
                        THEN [m2 EXCEPT !.exc =
                                 Exc("RuntimeError",
                                     <<"Rhubarb binary exited with a non-zero exit code">>)]
                        ELSE m2,
                  branch |-> "exited"]
         ELSE [m |-> m, branch |-> "read"]

\* read_process_stderr_line that returns whatever the exit code is.
read_process_poll_never_raises(m) ==
    IF ~was_started(m)
    THEN [m |-> [m EXCEPT !.exc = Exc("AssertionError", <<>>)], branch |-> "assert"]
    ELSE IF has_finished(m) THEN [m |-> m, branch |-> "finished"]
    ELSE
      LET code == poll(m.procs[m.process])
          m1 == [m EXCEPT !.last_exit_code = code]
      IN IF code # None
         THEN [m |-> collect_output_sync(m1, TRUE, None), branch |-> "exited"]
         ELSE [m |-> m1, branch |-> "read"]

\* Lines 207-219: up to the point where the next stderr line is asked for.
\* branch tells how the method went on: "assert", "finished" (early return),
\* "exited" (the poll saw the exit code) or "read" (next(stderr) comes next).
read_process_poll(m) ==
    IF ~was_started(m)
    THEN [m |-> [m EXCEPT !.exc = Exc("AssertionError", <<>>)], branch |-> "assert"]
    ELSE IF has_finished(m) THEN [m |-> m, branch |-> "finished"]
    ELSE
      LET code == poll(m.procs[m.process])
          m1 == [m EXCEPT !.last_exit_code = code]
      IN IF code # None
         THEN LET m2 == collect_output_sync(m1, TRUE, None)
              IN [m |-> IF code # Some(0) /\ ~Raised(m2)
                        THEN [m2 EXCEPT !.exc =
                                 Exc("RuntimeError",
                                     <<"Rhubarb binary exited with a non-zero exit code">>)]
                        ELSE m2,
                  branch |-> "exited"]
         ELSE [m |-> m1, branch |-> "read"]

\* next(self.process.stderr) that waits for a line even at end of file.
readable_lines_only(m) ==
    m.procs[m.process].errPipe # <<>>

\* next(self.process.stderr) returns once a line is in the pipe or the write
\* end is closed (the process has exited); until then it does not return.
readable(m) ==
    \/ m.procs[m.process].errPipe # <<>>
    \/ m.procs[m.process].state = "exited"

\* read_process_stderr_line that takes the newest line of the pipe.
read_process_next_takes_last(m) ==
    LET p == m.procs[m.process]
    IN IF p.errPipe # <<>>
       THEN [m EXCEPT !.stderr = Append(@, p.errPipe[Len(p.errPipe)]),
                      !.procs[m.process].errPipe =
                          SubSeq(p.errPipe, 1, Len(p.errPipe) - 1)]
       ELSE m

\* Lines 221-228, for a readable pipe: one line is appended to self.stderr,
\* or StopIteration (end of file) is caught and nothing changes.
read_process_next(m) ==
    LET p == m.procs[m.process]
    IN IF p.errPipe # <<>>
       THEN [m EXCEPT !.stderr = Append(@, Head(p.errPipe)),
                      !.procs[m.process].errPipe = Tail(p.errPipe)]
       ELSE m

\* lipsync_check_progress that raises without the reason.
check_progress_result_without_reason(m) ==
    LET status_lines == parse_status_infos(m.stderr)
    IN IF Raised(m)
       THEN [outcome |-> m.exc.type, value |-> None, msg |-> m.exc.msg]
       ELSE IF m.stderr = <<>> THEN [outcome |-> "none", value |-> None, msg |-> <<>>]
       ELSE IF HasType(status_lines, "failure")
       THEN [outcome |-> "RuntimeError", value |-> None,
             msg |-> <<"Rhubarb binary failed:">>]
       ELSE IF ~HasType(status_lines, "progress")
       THEN [outcome |-> "none", value |-> None, msg |-> <<>>]
       ELSE [outcome |-> "progress",
             value |-> Some(IntTimes100(by_type(status_lines, "progress").value)),
             msg |-> <<>>]

\* Lines 158-171 of lipsync_check_progress: what the call returns or raises
\* for the text now in self.stderr.
check_progress_result(m) ==
    LET status_lines == parse_status_infos(m.stderr)
    IN IF Raised(m)
       THEN [outcome |-> m.exc.type, value |-> None, msg |-> m.exc.msg]
       ELSE IF m.stderr = <<>> THEN [outcome |-> "none", value |-> None, msg |-> <<>>]
       ELSE IF \E i \in 1..Len(status_lines) :
                  DOMAIN status_lines[i] # {} /\ "type" \notin DOMAIN status_lines[i]
       THEN [outcome |-> "KeyError", value |-> None, msg |-> <<"type">>]
       ELSE IF HasType(status_lines, "failure")
       THEN [outcome |-> "RuntimeError", value |-> None,
             msg |-> <<"Rhubarb binary failed:", by_type(status_lines, "failure").reason>>]
       ELSE IF ~HasType(status_lines, "progress")
       THEN [outcome |-> "none", value |-> None, msg |-> <<>>]
       ELSE [outcome |-> "progress",
             value |-> Some(IntTimes100(by_type(status_lines, "progress").value)),
             msg |-> <<>>]

----------------------------------------------------------------------------
(* The state machine *)

\* What the driver's two state queries answered before a call, kept with the
\* call's result.
Snapshot ==
    [was_started |-> was_started(Cur), has_finished |-> has_finished(Cur)]

Result(op, outcome, value, msg, branch, pre) ==
    [op |-> op, outcome |-> outcome, value |-> value, msg |-> msg,
     branch |-> branch, pre |-> pre]

Commit(m) ==
    /\ process' = m.process
    /\ stdout' = m.stdout
    /\ stderr' = m.stderr
    /\ last_exit_code' = m.last_exit_code
    /\ procs' = m.procs

\* No CueProcessor has been made.
NoCueProcessor ==
    /\ frame_cfg = [fps |-> 1, fps_base |-> 1, offset |-> 0]
    /\ cue_frames = <<>>
    /\ min_cue_duration = 0
    /\ blend_in_time = 0
    /\ passes = 0
    /\ report = <<>>
    /\ cue_exc = "none"

\* No BakingContext is in use: track_index as clear_obj_cache leaves it
\* (baking_operators.py line 51) and no track selected.
NoBakingContext ==
    /\ track1 = None
    /\ track2 = None
    /\ track_index = 0

\* __init__ (lines 76-83); the executable may be in any state.
Init ==
    /\ executable_path \in ExeStates
    /\ process = 0
    /\ stdout = <<>>
    /\ stderr = <<>>
    /\ last_exit_code = None
    /\ procs = <<>>
    /\ pc = "idle"
    /\ ret = Result("init", "none", None, <<>>, "-", Snapshot)
    /\ NoCueProcessor
    /\ NoBakingContext

\* lipsync_start without the close_process before open_process.
lipsync_start_without_close(m, exe) == open_process(m, exe, "lipsync")

\* lipsync_start (lines 146-151): close_process, then open_process.
lipsync_start(m, exe) == open_process(close_process(m), exe, "lipsync")

LipsyncStart ==
    /\ pc = "idle"
    /\ Len(procs) < MaxProcs
    /\ LET m == lipsync_start(Cur, executable_path)
       IN /\ Commit(m)
          /\ ret' = Result("lipsync_start",
                           IF Raised(m) THEN m.exc.type ELSE "none",
                           None, m.exc.msg, "-", Snapshot)
    /\ UNCHANGED <<executable_path, pc>>
    /\ UNCHANGED cueVars
    /\ UNCHANGED bakeVars

\* get_version without the close_process before open_process.
get_version_without_close(m, exe, run) ==
    LET m1 == open_process(m, exe, "version")
    IN IF Raised(m1) THEN m1 ELSE collect_output_sync(m1, FALSE, run)

\* get_version (lines 126-132).  run: see collect_output_sync.
get_version(m, exe, run) ==
    LET m1 == open_process(close_process(m), exe, "version")
    IN IF Raised(m1) THEN m1 ELSE collect_output_sync(m1, FALSE, run)

GetVersion ==
    /\ pc = "idle"
    /\ Len(procs) < MaxProcs
    /\ \E run \in {None} \cup {Some(c) : c \in ExitCodes} :
         LET m == get_version(Cur, executable_path, run)
         IN /\ Commit(m)
            /\ ret' = Result("get_version",
                             IF Raised(m) THEN m.exc.type ELSE "version",
                             IF Raised(m) THEN None
                             ELSE Some(parse_version_info(m.stdout)),
                             m.exc.msg, "-", Snapshot)
    /\ UNCHANGED <<executable_path, pc>>
    /\ UNCHANGED cueVars
    /\ UNCHANGED bakeVars

\* The caller's cancel: close_process (lines 121-124).
Cancel ==
    /\ pc = "idle"
    /\ LET m == close_process(Cur)
       IN /\ Commit(m)
          /\ ret' = Result("close_process",
                           IF Raised(m) THEN m.exc.type ELSE "none",
                           None, m.exc.msg, "-", Snapshot)
    /\ UNCHANGED <<executable_path, pc>>
    /\ UNCHANGED cueVars
    /\ UNCHANGED bakeVars

\* lipsync_check_progress that resets self.stderr before the assertion.
lipsync_check_progress_enter_resets_first(m) ==
    IF ~was_started(m)
    THEN [m |-> [m EXCEPT !.stderr = <<>>, !.exc = Exc("AssertionError", <<>>)],
          branch |-> "assert"]
    ELSE read_process_poll([m EXCEPT !.stderr = <<>>])

\* lipsync_check_progress that keeps what self.stderr held before the call.
lipsync_check_progress_enter_keeps_stderr(m) ==
    IF ~was_started(m)
    THEN [m |-> [m EXCEPT !.exc = Exc("AssertionError", <<>>)], branch |-> "assert"]
    ELSE read_process_poll(m)

\* Lines 155-157 of lipsync_check_progress: the assertion, the reset of
\* self.stderr and the call of read_process_stderr_line.
lipsync_check_progress_enter(m) ==
    IF ~was_started(m)
    THEN [m |-> [m EXCEPT !.exc = Exc("AssertionError", <<>>)], branch |-> "assert"]
    ELSE read_process_poll([m EXCEPT !.stderr = <<>>])

\* lipsync_check_progress (lines 153-171) up to its return, or up to the
\* point where next(self.process.stderr) waits for the tool.
CheckProgress ==
    /\ pc = "idle"
    /\ LET r == lipsync_check_progress_enter(Cur)
       IN IF r.branch = "read" /\ ~readable(r.m)
          THEN /\ Commit(r.m)
               /\ pc' = "blocked"
               /\ ret' = Result("lipsync_check_progress", "pending", None,
                                <<>>, "read", Snapshot)
          ELSE LET m == IF r.branch = "read" THEN read_process_next(r.m) ELSE r.m
                   res == check_progress_result(m)
               IN /\ Commit(m)
                  /\ pc' = "idle"
                  /\ ret' = Result("lipsync_check_progress", res.outcome,
                                   res.value, res.msg, r.branch, Snapshot)
    /\ UNCHANGED executable_path
    /\ UNCHANGED cueVars
    /\ UNCHANGED bakeVars

\* The tool wrote a line or exited: next(self.process.stderr) returns and
\* lipsync_check_progress runs to its end.
CheckProgressResume ==
    /\ pc = "blocked"
    /\ readable(Cur)
    /\ LET m == read_process_next(Cur)
           res == check_progress_result(m)
       IN /\ Commit(m)
          /\ ret' = Result("lipsync_check_progress", res.outcome, res.value,
                           res.msg, "read", ret.pre)
    /\ pc' = "idle"
    /\ UNCHANGED executable_path
    /\ UNCHANGED cueVars
    /\ UNCHANGED bakeVars

\* The file at executable_path is created, removed or replaced, or the path
\* is configured anew.
SetExecutable ==
    /\ \E e \in ExeStates : e # executable_path /\ executable_path' = e
    /\ UNCHANGED <<process, stdout, stderr, last_exit_code, procs, pc, ret>>
    /\ UNCHANGED cueVars
    /\ UNCHANGED bakeVars

\* The running tool writes one status line to its stderr.
ProcEmit ==
    /\ process # 0
    /\ procs[process].state = "running"
    /\ procs[process].emitted < MaxLines
    /\ \E l \in StatusLines :
         procs' = [procs EXCEPT ![process].errPipe = Append(@, l),
                                ![process].emitted = @ + 1]
    /\ UNCHANGED <<executable_path, process, stdout, stderr, last_exit_code, pc, ret>>
    /\ UNCHANGED cueVars
    /\ UNCHANGED bakeVars

\* The running tool writes its stdout document and exits by itself.
ProcExit ==
    /\ process # 0
    /\ procs[process].state = "running"
    /\ \E c \in ExitCodes :
         procs' = [procs EXCEPT ![process].state = "exited",
                                ![process].code = Some(c),
                                ![process].outPipe = @ \o StdoutOf(procs[process].kind, c)]
    /\ UNCHANGED <<executable_path, process, stdout, stderr, last_exit_code, pc, ret>>
    /\ UNCHANGED cueVars
    /\ UNCHANGED bakeVars

\* A process that was sent SIGTERM dies of it.
ProcDie ==
    /\ \E i \in 1..Len(procs) :
         /\ procs[i].state = "running"
         /\ procs[i].signalled
         /\ procs' = [procs EXCEPT ![i].state = "exited", ![i].code = Some(SIGTERM_CODE)]
    /\ UNCHANGED <<executable_path, process, stdout, stderr, last_exit_code, pc, ret>>
    /\ UNCHANGED cueVars
    /\ UNCHANGED bakeVars

Next ==
    \/ LipsyncStart
    \/ GetVersion
    \/ Cancel
    \/ CheckProgress
    \/ CheckProgressResume
    \/ SetExecutable
    \/ ProcEmit
    \/ ProcExit
    \/ ProcDie

Spec == Init /\ [][Next]_vars

----------------------------------------------------------------------------
(* Floating point                                                          *)
(* Times (seconds) and frame numbers are Python floats.  The model keeps   *)
(* the way binary floating point rounds and lowers the precision: a float  *)
(* is a whole number of ticks with at most FloatBits significant bits, and *)
(* every sum, difference, product and quotient is rounded to the nearest   *)
(* such number, a tie going to the even significand (the IEEE 754          *)
(* default).  A tick is the distance between 1.0 and the next float.       *)

\* Bits of the significand.
FloatBits == 3
\* The largest time of a cue that is given to the CueProcessor.
MaxTime == 12

\* The distance between neighbouring floats at the magnitude of n >= 0.
RECURSIVE Ulp(_)
Ulp(n) == IF n < 2^FloatBits THEN 1 ELSE 2 * Ulp(n \div 2)

RoundMagnitude(n) ==
    LET u == Ulp(n)
        q == n \div u
        r == n % u
    IN IF 2 * r < u THEN q * u
       ELSE IF 2 * r > u THEN (q + 1) * u
       ELSE IF q % 2 = 0 THEN q * u
       ELSE (q + 1) * u

\* The float nearest to the exact result x of an operation.
fl(x) == IF x < 0 THEN 0 - RoundMagnitude(0 - x) ELSE RoundMagnitude(x)

\* The number of ticks in 1.0: a second, or a frame.
Ticks == 2^(FloatBits - 1)

\* The float nearest to p / q, for p >= 0 and q > 0.
RoundQuotient(p, q) ==
    LET u == Ulp(p \div q)
        d == q * u
        n == p \div d
        r == p % d
    IN IF 2 * r < d THEN n * u
       ELSE IF 2 * r > d THEN (n + 1) * u
       ELSE IF n % 2 = 0 THEN n * u
       ELSE (n + 1) * u

\* The float x / k of a float x and a number k > 0.
fl_div(x, k) == IF x < 0 THEN 0 - RoundQuotient(0 - x, k) ELSE RoundQuotient(x, k)

Floats == {x \in 0..MaxTime : fl(x) = x}

----------------------------------------------------------------------------
(* rhubarb/mouth_cues.py: FrameConfig, MouthCue, MouthCueFrames            *)
(* A frame_cfg is [fps, fps_base, offset].  A time and a frame number that *)
(* is a float are counted in ticks, and so is the offset; a frame number   *)
(* that is an int (floor, ceil) counts frames.  At one frame per second    *)
(* the conversions are exact, at three frames per second they round.       *)
(* A cue frame cf is [key, start, end, blend_in].                          *)

FrameConfigs ==
    [fps : {1, 3}, fps_base : {1}, offset : {0, Ticks \div 2}]

\* time2frame_float(t, fps, fps_base) = t * fps / fps_base.
time2frame_float(t, fps, fps_base) == fl_div(fl(t * fps), fps_base)

\* frame2time(frame, fps, fps_base) = frame * fps_base / fps.
frame2time(frame, fps, fps_base) == fl_div(fl(frame * fps_base), fps)

\* MouthCue.duration
duration(cf) == fl(cf.end - cf.start)

\* CueProcessor.frame2time (lines 14-16) of a frame number that is an int.
cp_frame2time(frame, cfg) ==
    frame2time(fl(fl(frame * Ticks) - cfg.offset), cfg.fps, cfg.fps_base)

\* CueProcessor.time2frame_float (lines 18-20).
cp_time2frame_float(t, cfg) ==
    fl(time2frame_float(t, cfg.fps, cfg.fps_base) + cfg.offset)

start_frame_float(cf, cfg) == cp_time2frame_float(cf.start, cfg)

end_frame_float(cf, cfg) == cp_time2frame_float(cf.end, cfg)

\* math.floor and math.ceil of a float counted in ticks of a frame.
FloorFrame(x, cfg) == x \div Ticks

CeilFrame(x, cfg) == (x + Ticks - 1) \div Ticks

start_frame_left(cf, cfg) == FloorFrame(start_frame_float(cf, cfg), cfg)

start_frame_right(cf, cfg) == CeilFrame(start_frame_float(cf, cfg), cfg)

end_frame_left(cf, cfg) == FloorFrame(end_frame_float(cf, cfg), cfg)

end_frame_right(cf, cfg) == CeilFrame(end_frame_float(cf, cfg), cfg)

\* The cue covers at least one whole frame.
intersects_frame(cf, cfg) == end_frame_left(cf, cfg) >= start_frame_right(cf, cfg)

\* The time at which the blend-in of the cue starts.
pre_start_float(cf) == fl(cf.start - cf.blend_in)

----------------------------------------------------------------------------
(* rhubarb/cue_processor.py: the passes of CueProcessor as functions of    *)
(* the cue list.  A pass yields [cue_frames, count, exc]: the list as the  *)
(* pass left it, the number it returns, and "AssertionError" when an       *)
(* assert stopped it.                                                      *)

PassResult(cfs, count, exc) == [cue_frames |-> cfs, count |-> count, exc |-> exc]

\* trim_long_cues, cutting a long cue at its start instead of its end.
trim_long_cues_moves_start(cfs, max_dur) ==
    LET trimmed == {i \in 1..Len(cfs) :
                       cfs[i].key # "X" /\ ~(duration(cfs[i]) <= max_dur)}
    IN PassResult([i \in 1..Len(cfs) |->
                      IF i \in trimmed
                      THEN [cfs[i] EXCEPT !.start = fl(cfs[i].end - max_dur)]
                      ELSE cfs[i]],
                  Cardinality(trimmed), "none")

\* trim_long_cues (lines 22-34).
trim_long_cues(cfs, max_dur) ==
    LET trimmed == {i \in 1..Len(cfs) :
                       cfs[i].key # "X" /\ ~(duration(cfs[i]) <= max_dur)}
    IN PassResult([i \in 1..Len(cfs) |->
                      IF i \in trimmed
                      THEN [cfs[i] EXCEPT !.end = fl(cfs[i].start + max_dur)]
                      ELSE cfs[i]],
                  Cardinality(trimmed), "none")

\* ensure_frame_intersection with the targets of lines 47 and 49 exchanged:
\* the start is moved to the frame after the end, the end to the frame
\* before the start.
RECURSIVE ensure_frame_intersection_crossed(_, _, _, _)
ensure_frame_intersection_crossed(cfs, cfg, i, modified) ==
    IF i > Len(cfs) THEN PassResult(cfs, modified, "none")
    ELSE
      LET cf == cfs[i]
          d_start == fl(start_frame_float(cf, cfg)
                        - fl(start_frame_left(cf, cfg) * Ticks))
          d_end == fl(fl(end_frame_right(cf, cfg) * Ticks)
                      - end_frame_float(cf, cfg))
      IN IF intersects_frame(cf, cfg)
         THEN ensure_frame_intersection_crossed(cfs, cfg, i + 1, modified)
         ELSE IF ~(d_start > 0 /\ d_end > 0)
         THEN PassResult(cfs, modified, "AssertionError")
         ELSE ensure_frame_intersection_crossed(
                [cfs EXCEPT ![i] =
                    IF d_start < d_end
                    THEN [cf EXCEPT !.start =
                             cp_frame2time(end_frame_right(cf, cfg), cfg)]
                    ELSE [cf EXCEPT !.end =
                             cp_frame2time(start_frame_left(cf, cfg), cfg)]],
                cfg, i + 1, modified + 1)

\* ensure_frame_intersection with the assert of line 45 ahead of the test of
\* line 40: it is made for every cue.
RECURSIVE ensure_frame_intersection_asserting_first(_, _, _, _)
ensure_frame_intersection_asserting_first(cfs, cfg, i, modified) ==
    IF i > Len(cfs) THEN PassResult(cfs, modified, "none")
    ELSE
      LET cf == cfs[i]
          d_start == fl(start_frame_float(cf, cfg)
                        - fl(start_frame_left(cf, cfg) * Ticks))
          d_end == fl(fl(end_frame_right(cf, cfg) * Ticks)
                      - end_frame_float(cf, cfg))
      IN IF ~(d_start > 0 /\ d_end > 0)
         THEN PassResult(cfs, modified, "AssertionError")
         ELSE IF intersects_frame(cf, cfg)
         THEN ensure_frame_intersection_asserting_first(cfs, cfg, i + 1, modified)
         ELSE ensure_frame_intersection_asserting_first(
                [cfs EXCEPT ![i] =
                    IF d_start < d_end
                    THEN [cf EXCEPT !.start =
                             cp_frame2time(start_frame_left(cf, cfg), cfg)]
                    ELSE [cf EXCEPT !.end =
                             cp_frame2time(end_frame_right(cf, cfg), cfg)]],
                cfg, i + 1, modified + 1)

\* ensure_frame_intersection (lines 36-53), from cue i on.
RECURSIVE ensure_frame_intersection_from(_, _, _, _)
ensure_frame_intersection_from(cfs, cfg, i, modified) ==
    IF i > Len(cfs) THEN PassResult(cfs, modified, "none")
    ELSE
      LET cf == cfs[i]
          d_start == fl(start_frame_float(cf, cfg)
                        - fl(start_frame_left(cf, cfg) * Ticks))
          d_end == fl(fl(end_frame_right(cf, cfg) * Ticks)
                      - end_frame_float(cf, cfg))
      IN IF intersects_frame(cf, cfg)
         THEN ensure_frame_intersection_from(cfs, cfg, i + 1, modified)
         ELSE IF ~(d_start > 0 /\ d_end > 0)
         THEN PassResult(cfs, modified, "AssertionError")
         ELSE ensure_frame_intersection_from(
                [cfs EXCEPT ![i] =
                    IF d_start < d_end
                    THEN [cf EXCEPT !.start =
                             cp_frame2time(start_frame_left(cf, cfg), cfg)]
                    ELSE [cf EXCEPT !.end =
                             cp_frame2time(end_frame_right(cf, cfg), cfg)]],
                cfg, i + 1, modified + 1)

ensure_frame_intersection(cfs, cfg) ==
    ensure_frame_intersection_from(cfs, cfg, 1, 0)

\* round_ends_down (lines 55-72).  The frame numbers compared at line 66 are
\* ints: their distance is below 0.0001 only when they are equal.
round_ends_down(cfs, cfg) ==
    LET rounded == {i \in 1..Len(cfs) :
                       /\ intersects_frame(cfs[i], cfg)
                       /\ start_frame_right(cfs[i], cfg) # end_frame_left(cfs[i], cfg)}
    IN PassResult([i \in 1..Len(cfs) |->
                      IF i \in rounded
                      THEN [cfs[i] EXCEPT !.end =
                               cp_frame2time(end_frame_left(cfs[i], cfg), cfg)]
                      ELSE cfs[i]],
                  Cardinality(rounded), "none")

\* set_blend_in_times (lines 74-90), from cue i on.  last is
\* last_cue_start_frame_time: None or Some(time).
RECURSIVE set_blend_in_times_from(_, _, _, _, _, _)
set_blend_in_times_from(cfs, cfg, blend, i, last, shrinked) ==
    IF i > Len(cfs) THEN PassResult(cfs, shrinked, "none")
    ELSE
      LET cf == [cfs[i] EXCEPT !.blend_in = blend]
          set == [cfs EXCEPT ![i] = cf]
          next_last == Some(cp_frame2time(start_frame_right(cf, cfg), cfg))
      IN IF last = None
         THEN set_blend_in_times_from(set, cfg, blend, i + 1, next_last, shrinked)
         ELSE
           LET d == fl(pre_start_float(cf) - last[1])
           IN IF d >= 0
              THEN set_blend_in_times_from(set, cfg, blend, i + 1, last, shrinked)
              ELSE IF ~(fl(blend + d) >= 0)
              THEN PassResult(set, shrinked, "AssertionError")
              ELSE set_blend_in_times_from(
                     [cfs EXCEPT ![i] = [cf EXCEPT !.blend_in = fl(blend + d)]],
                     cfg, blend, i + 1, next_last, shrinked + 1)

set_blend_in_times(cfs, cfg, blend) ==
    set_blend_in_times_from(cfs, cfg, blend, 1, None, 0)

----------------------------------------------------------------------------
(* CueProcessor.optimize_cues, called twice on the same CueProcessor *)

\* The step of the given number in the list of optimize_cues (lines 93-98).
step(k, cfs, cfg, min_dur, blend) ==
    CASE k = 1 -> trim_long_cues(cfs, min_dur)
      [] k = 2 -> ensure_frame_intersection(cfs, cfg)
      [] k = 3 -> round_ends_down(cfs, cfg)
      [] k = 4 -> set_blend_in_times(cfs, cfg, blend)

\* The loop of optimize_cues (lines 100-103) over the first n steps, as a
\* function of the cue list: the list afterwards, the counts of the steps
\* that returned, and the exception that ended the loop.
RECURSIVE optimize_cues_steps(_, _, _, _, _)
optimize_cues_steps(n, cfs, cfg, min_dur, blend) ==
    IF n = 0 THEN PassResult(cfs, <<>>, "none")
    ELSE
      LET before == optimize_cues_steps(n - 1, cfs, cfg, min_dur, blend)
          r == step(n, before.cue_frames, cfg, min_dur, blend)
      IN IF before.exc # "none" THEN before
         ELSE PassResult(r.cue_frames,
                         IF r.exc = "none" THEN Append(before.count, r.count)
                         ELSE before.count,
                         r.exc)

\* optimize_cues (lines 92-104).
optimize_cues(cfs, cfg, min_dur, blend) ==
    optimize_cues_steps(4, cfs, cfg, min_dur, blend)

\* The keys of the cues: a mouth shape and the silence.
CueKeys == {"A", "X"}

MaxDurations == {2, 6}

BlendInTimes == {1, 2}

\* A cue as the parser delivers it, end >= start, wrapped with blend_in = 0.
CueFrames ==
    {cf \in [key : CueKeys, start : Floats, end : Floats, blend_in : {0}] :
        cf.end >= cf.start}

\* Three mouth shapes as the tool writes them: each cue starts where the one
\* before it ends.
ContiguousCues ==
    {<<[key |-> "A", start |-> t[1], end |-> t[2], blend_in |-> 0],
       [key |-> "A", start |-> t[2], end |-> t[3], blend_in |-> 0],
       [key |-> "A", start |-> t[3], end |-> t[4], blend_in |-> 0]>> :
        t \in {u \in [1..4 -> Floats] : \A i \in 1..3 : u[i] <= u[i + 1]}}

\* The cue lists given to the CueProcessor: one or two cues in the order of
\* their starts, or three contiguous ones.
CueLists ==
    {<<a>> : a \in CueFrames}
    \cup {cfs \in [1..2 -> CueFrames] : cfs[2].start >= cfs[1].start}
    \cup ContiguousCues

\* The driver as __init__ leaves it, with no executable configured.
DriverIdle ==
    /\ executable_path = "unset"
    /\ process = 0
    /\ stdout = <<>>
    /\ stderr = <<>>
    /\ last_exit_code = None
    /\ procs = <<>>
    /\ pc = "idle"
    /\ ret = Result("init", "none", None, <<>>, "-", Snapshot)

CueInit ==
    /\ DriverIdle
    /\ frame_cfg \in FrameConfigs
    /\ cue_frames \in CueLists
    /\ min_cue_duration \in MaxDurations
    /\ blend_in_time \in BlendInTimes
    /\ passes = 0
    /\ report = <<>>
    /\ cue_exc = "none"
    /\ NoBakingContext

\* The loop over steps in optimize_cues (lines 100-103), for two calls: the
\* pass that is due runs, and its count is kept.
StepDue(k) ==
    /\ cue_exc = "none"
    /\ passes \in {k, k + 4}

StepDone(r) ==
    /\ cue_frames' = r.cue_frames
    /\ cue_exc' = r.exc
    /\ report' = IF r.exc = "none" THEN Append(report, r.count) ELSE report
    /\ passes' = passes + 1
    /\ UNCHANGED <<frame_cfg, min_cue_duration, blend_in_time>>
    /\ UNCHANGED driverVars
    /\ UNCHANGED bakeVars

TrimLongCues ==
    /\ StepDue(0)
    /\ StepDone(trim_long_cues(cue_frames, min_cue_duration))

EnsureFrameIntersection ==
    /\ StepDue(1)
    /\ StepDone(ensure_frame_intersection(cue_frames, frame_cfg))

RoundEndsDown ==
    /\ StepDue(2)
    /\ StepDone(round_ends_down(cue_frames, frame_cfg))

SetBlendInTimes ==
    /\ StepDue(3)
    /\ StepDone(set_blend_in_times(cue_frames, frame_cfg, blend_in_time))

CueNext ==
    \/ TrimLongCues
    \/ EnsureFrameIntersection
    \/ RoundEndsDown
    \/ SetBlendInTimes

CueSpec == CueInit /\ [][CueNext]_vars

----------------------------------------------------------------------------
(* RhubarbParser called on a text, as RhubarbParserTest calls it: the text *)
(* is in stdout or stderr, the result of the call in ret.                  *)

\* The length of the longest version banner.
MaxTextLen == 8

\* Every text of at most n elements of the set.
Texts(chars, n) == UNION {[1..k -> chars] : k \in 0..n}

\* The characters and words of a version banner.
BannerChars == {"version", " ", "1", "."}

\* The banners given to parse_version_info: the texts of the test, what the
\* tool writes, and every short text.
VersionTexts ==
    Texts(BannerChars, MaxTextLen) \cup {<<"invalid">>, StdoutOf("version", 0)}

\* The lines of a stderr text: a status line of the tool, an empty line, or
\* a line of brackets nested too deep.
StderrLines == StatusLines \cup {"", "deep"}

StderrTexts == Texts(StderrLines, MaxLines + 1)

\* The documents of a stdout text.
JsonDocuments == {"garbage", "{}", "[]", "cues0", "mouthCues", "deep"}

JsonTexts == Texts(JsonDocuments, 2)

ParseInit ==
    /\ executable_path = "unset"
    /\ process = 0
    /\ last_exit_code = None
    /\ procs = <<>>
    /\ pc = "idle"
    /\ \/ stdout \in VersionTexts \cup JsonTexts /\ stderr = <<>>
       \/ stdout = <<>> /\ stderr \in StderrTexts
    /\ ret = Result("init", "none", None, <<>>, "-", Snapshot)
    /\ NoCueProcessor
    /\ NoBakingContext

\* No method of RhubarbParser has been called yet.
NotParsed == ret.op = "init"

\* A static method of RhubarbParser has returned or raised; it changes no
\* state.
Parsed(op, outcome, value) ==
    /\ ret' = Result(op, outcome, value, <<>>, "-", Snapshot)
    /\ UNCHANGED <<executable_path, process, stdout, stderr, last_exit_code, procs, pc>>
    /\ UNCHANGED cueVars
    /\ UNCHANGED bakeVars

ParseVersionInfo ==
    /\ NotParsed
    /\ Parsed("parse_version_info", "none", Some(parse_version_info(stdout)))

ParseStatusInfos ==
    /\ NotParsed
    /\ LET exc == parse_status_infos_raises(stderr)
       IN Parsed("parse_status_infos", exc,
                 IF exc = "none" THEN Some(parse_status_infos(stderr)) ELSE None)

ParseLipsyncJson ==
    /\ NotParsed
    /\ LET r == parse_lipsync_json(stdout)
       IN Parsed("parse_lipsync_json", r.exc,
                 IF r.exc = "none" THEN Some(r.value) ELSE None)

ParseNext ==
    \/ ParseVersionInfo
    \/ ParseStatusInfos
    \/ ParseLipsyncJson

ParseSpec == ParseInit /\ [][ParseNext]_vars

----------------------------------------------------------------------------
(* blender/baking_operators.py: the track navigation of BakingContext.     *)
(* track1 and track2 are the NLA tracks selected on the current object:    *)
(* None, or Some(name) of an NlaTrack.  A next_track call leaves the track *)
(* it returns in ret.value.                                                *)

\* How far track_index is counted in one behaviour.
MaxTrackIndex == 16

\* What the selection of a track on an object can be.
TrackValues(name) == {None, Some(name)}

\* BakingContext.tracks (lines 136-139): the list [track1, track2].
tracks(t1, t2) == <<t1, t2>>

\* BakingContext.current_track (lines 141-145), for a track_index.
current_track(t1, t2, index) ==
    IF index < 0 THEN None ELSE tracks(t1, t2)[(index % 2) + 1]

\* next_track without the second step of lines 150-151.
next_track_single_step(t1, t2, index) ==
    [track_index |-> index + 1, value |-> current_track(t1, t2, index + 1)]

\* BakingContext.next_track (lines 147-152): the new track_index and the
\* track returned.
next_track(t1, t2, index) ==
    LET stepped == index + 1
        tried == IF current_track(t1, t2, stepped) = None
                 THEN stepped + 1
                 ELSE stepped
    IN [track_index |-> tried, value |-> current_track(t1, t2, tried)]

\* A BakingContext is made for a current object with some selection of
\* tracks; nothing else of the program runs.
BakeInit ==
    /\ DriverIdle
    /\ NoCueProcessor
    /\ track1 \in TrackValues("track1")
    /\ track2 \in TrackValues("track2")
    /\ track_index = 0

NextTrack ==
    /\ track_index < MaxTrackIndex
    /\ LET r == next_track(track1, track2, track_index)
       IN /\ track_index' = r.track_index
          /\ ret' = Result("next_track", "none", r.value, <<>>, "-", Snapshot)
    /\ UNCHANGED <<track1, track2>>
    /\ UNCHANGED <<executable_path, process, stdout, stderr, last_exit_code, procs, pc>>
    /\ UNCHANGED cueVars

\* object_iter (lines 66-70) moves on: the current object is another one,
\* with its own selection of tracks.  track_index is not reset.
ObjectIter ==
    /\ track1' \in TrackValues("track1")
    /\ track2' \in TrackValues("track2")
    /\ <<track1', track2'>> # <<track1, track2>>
    /\ UNCHANGED track_index
    /\ UNCHANGED driverVars
    /\ UNCHANGED cueVars

BakeNext ==
    \/ NextTrack
    \/ ObjectIter

BakeSpec == BakeInit /\ [][BakeNext]_vars

----------------------------------------------------------------------------
(* The polling loop of the tests: lipsync_start, then wait_until_finished *)

CheckCall == "lipsync_check_progress"

\* The launch went through.
Launched == ret.op = "lipsync_start" /\ ret.outcome = "none"

\* The last lipsync_check_progress call left by an exception.
CheckRaised ==
    /\ ret.op = CheckCall
    /\ ret.outcome \notin {"none", "progress", "pending"}

\* testLipsync: self.wrapper.lipsync_start(...) on the fresh wrapper.
PollLaunch ==
    /\ ret.op = "init"
    /\ LipsyncStart

\* One round of the loop in wait_until_finished: has_finished is false, so
\* lipsync_check_progress is called; an exception leaves the loop.
PollCheck ==
    /\ Launched \/ (ret.op = CheckCall /\ ~CheckRaised)
    /\ ~has_finished(Cur)
    /\ CheckProgress

PollNext ==
    \/ PollLaunch
    \/ PollCheck
    \/ CheckProgressResume
    \/ ProcEmit
    \/ ProcExit

\* The caller keeps polling, a blocked read returns once it can, and the
\* tool exits in the end.
PollSpec ==
    /\ Init
    /\ [][PollNext]_vars
    /\ WF_vars(PollCheck)
    /\ WF_vars(CheckProgressResume)
    /\ WF_vars(ProcExit)

----------------------------------------------------------------------------
(* Properties of the process driver *)

GenericFailure == <<"Rhubarb binary exited with a non-zero exit code">>

\* The call raised the error of line 167 (a "failure" status event).
FailureRaised ==
    /\ ret.op = CheckCall
    /\ ret.outcome = "RuntimeError"
    /\ ret.msg # <<>>
    /\ ret.msg[1] = "Rhubarb binary failed:"

\* The owned process has exited and the driver has not polled it yet.
ExitPending(c) ==
    /\ pc = "idle"
    /\ process # 0
    /\ procs[process].state = "exited"
    /\ procs[process].code = Some(c)

IsEvent(line, t) ==
    LET j == parse_status_info_line(line)
    IN DOMAIN j # {} /\ j.type = t

\* C1: lipsync_check_progress never blocks: while the process is running and
\* no stderr line is available the call returns none at once, so the caller
\* is never found waiting inside the call for the tool to write.
C1_CheckProgressNeverBlocks ==
    ~(/\ pc = "blocked"
      /\ procs[process].state = "running"
      /\ procs[process].errPipe = <<>>)

\* C2: when the line that lipsync_check_progress reads from a running session
\* is a "failure" event with reason R, the call raises a RuntimeError whose
\* message contains R, and returns neither a progress value nor none.
C2_FailureLineRaisesWithReason ==
    [][((CheckProgress \/ CheckProgressResume)
        /\ process # 0
        /\ (pc = "blocked" \/ procs[process].state = "running")
        /\ procs[process].errPipe # <<>>
        /\ IsEvent(Head(procs[process].errPipe), "failure"))
       => (/\ ret'.outcome = "RuntimeError"
           /\ parse_status_info_line(Head(procs[process].errPipe)).reason
                 \in Range(ret'.msg)
           /\ ret'.value = None)]_vars

C2_Witness ==
    /\ FailureRaised
    /\ ret.branch = "read"
    /\ stderr = <<"failBoom">>
    /\ "boom" \in Range(ret.msg)

\* C3 as stated: after lipsync_check_progress has raised because of a
\* "failure" event, has_finished is true.
C3_FailureFinishes == FailureRaised => has_finished(Cur)

\* C3 amended: after lipsync_check_progress has raised because of a "failure"
\* event, has_finished is true exactly when that call saw the exit code by
\* polling (the event came with the drained output); when the event was read
\* from a running process no exit code is recorded, has_finished is false and
\* the session is still active.
C3_FailureFinishesOnlyWithExitCode ==
    FailureRaised =>
        /\ has_finished(Cur) <=> ret.branch = "exited"
        /\ ret.branch = "read" => was_started(Cur) /\ last_exit_code = None
        /\ ret.branch = "exited" => ~was_started(Cur) /\ last_exit_code = Some(0)

C3_Witness ==
    /\ FailureRaised
    /\ ret.branch = "read"
    /\ ~has_finished(Cur)
    /\ was_started(Cur)

\* C4: when lipsync_check_progress finds the process exited with a non-zero
\* code it drains the pipes into stderr and stdout, drops the handle and
\* raises the generic error; has_finished is then true and last_exit_code is
\* that code.
C4_NonZeroExitRaisesGeneric ==
    [][\A c \in ExitCodes \ {0} :
         (CheckProgress /\ ExitPending(c))
         => (/\ ret'.outcome = "RuntimeError"
             /\ ret'.msg = GenericFailure
             /\ stderr' = procs[process].errPipe
             /\ stdout' = stdout \o procs[process].outPipe
             /\ process' = 0
             /\ last_exit_code' = Some(c)
             /\ has_finished(Cur)')]_vars

C4_Witness ==
    /\ ret.op = CheckCall
    /\ ret.branch = "exited"
    /\ ret.outcome = "RuntimeError"
    /\ ret.msg = GenericFailure
    /\ last_exit_code = Some(1)
    /\ stderr # <<>>
    /\ process = 0

\* C5 as stated: when lipsync_check_progress finds the process exited with
\* code 0 the call returns none, whatever lines it drained.
C5_ExitZeroReturnsNone ==
    (ret.op = CheckCall /\ ret.branch = "exited" /\ last_exit_code = Some(0))
    => ret.outcome = "none"

\* C5 amended: when lipsync_check_progress finds the process exited with
\* code 0 it never raises the generic exit-code error, and the drained stderr
\* lines decide the result as a line read from a running process does: a
\* "failure" event among them raises with its reason, otherwise a "progress"
\* event among them is returned scaled, and only with neither is none returned.
C5_ExitZeroResultFromDrainedLines ==
    [][(CheckProgress /\ ExitPending(0))
       => LET drained == procs[process].errPipe
              failed == \E i \in 1..Len(drained) : IsEvent(drained[i], "failure")
              progressed == \E i \in 1..Len(drained) : IsEvent(drained[i], "progress")
          IN /\ ret'.msg # GenericFailure
             /\ last_exit_code' = Some(0)
             /\ failed => ret'.outcome = "RuntimeError" /\ "boom" \in Range(ret'.msg)
             /\ (~failed /\ progressed) =>
                    ret'.outcome = "progress" /\ ret'.value = Some(28)
             /\ (~failed /\ ~progressed) => ret'.outcome = "none"]_vars

C5_Witness ==
    /\ ret.op = CheckCall
    /\ ret.branch = "exited"
    /\ last_exit_code = Some(0)
    /\ ret.outcome = "progress"
    /\ ret.value = Some(28)

C7_FailedLaunchNotFinished ==
    (ret.op = "lipsync_start" /\ ret.outcome = "AssertionError")
    => (~was_started(Cur) /\ ~has_finished(Cur))

\* C7 amended: if errors() is non-empty, lipsync_start raises before any
\* process is created: afterwards was_started is false, no process was added,
\* and stdout, stderr and last_exit_code are what they were before the call,
\* so has_finished is false unless an earlier session's exit code is recorded.
C7_FailedLaunchCreatesNothing ==
    [][(LipsyncStart /\ errors(executable_path) # "")
       => (/\ ret'.outcome = "AssertionError"
           /\ ret'.msg = <<errors(executable_path)>>
           /\ process' = 0
           /\ Len(procs') = Len(procs)
           /\ \A i \in 1..Len(procs) : procs'[i].state = procs[i].state
           /\ UNCHANGED <<stdout, stderr, last_exit_code>>)]_vars

C7_Witness ==
    /\ ret.op = "lipsync_start"
    /\ ret.outcome = "AssertionError"
    /\ ret.msg = <<errors("missing")>>
    /\ ~was_started(Cur)
    /\ has_finished(Cur)

\* C8: lipsync_check_progress without an active session (never started, or
\* closed by completion or by close_process) raises an AssertionError and
\* leaves stdout, stderr and last_exit_code as they were.
C8_CheckWithoutSessionRaises ==
    [][(CheckProgress /\ ~was_started(Cur))
       => (/\ ret'.outcome = "AssertionError"
           /\ ret'.branch = "assert"
           /\ UNCHANGED <<stdout, stderr, last_exit_code, process, procs>>)]_vars

C8_Witness ==
    /\ ret.op = CheckCall
    /\ ret.outcome = "AssertionError"
    /\ ret.pre.has_finished
    /\ stderr # <<>>
    /\ stdout # <<>>

\* C9 as stated: after close_process on a running session has_finished is
\* true.
C9_CancelFinishes ==
    (ret.op = "close_process" /\ ret.pre.was_started) => has_finished(Cur)

\* C9 amended: after close_process on a running session the process has been
\* sent the termination signal and the handle is dropped (was_started false),
\* but no exit code is recorded and has_finished stays false: by was_started
\* and has_finished the cancelled driver answers as a never started one does.
C9_CancelLeavesUnfinished ==
    [][(Cancel /\ was_started(Cur) /\ procs[process].state = "running")
       => (/\ procs'[process].signalled
           /\ ~was_started(Cur)'
           /\ ~has_finished(Cur)'
           /\ UNCHANGED <<stdout, stderr, last_exit_code>>)]_vars

C9_Witness ==
    /\ ret.op = "close_process"
    /\ ret.pre.was_started
    /\ ~has_finished(Cur)
    /\ ~was_started(Cur)
    /\ procs[Len(procs)].signalled

\* C10: close_process never raises, whatever the state; on a driver without
\* a process (never started, finished, cancelled before) it changes nothing,
\* and a second close_process right after one changes nothing more.
C10_CancelIdempotent ==
    [][Cancel
       => (/\ ret'.outcome = "none"
           /\ ~was_started(Cur) =>
                  UNCHANGED <<process, stdout, stderr, last_exit_code, procs>>
           /\ close_process(Cur') = Cur')]_vars

C10_Witness ==
    /\ ret.op = "close_process"
    /\ ~ret.pre.was_started
    /\ ret.pre.has_finished
    /\ \E i \in 1..Len(procs) : procs[i].signalled

\* The call was accepted: neither assertion of open_process turned it down.
Accepted == ret.outcome # "AssertionError"

\* C11 as stated: after a launch or a get_version that was accepted from a
\* state with no running process, the driver is Running: was_started is true,
\* has_finished is false, and stdout and stderr are empty.
C11_NewSessionIsRunning ==
    (/\ ret.op \in {"lipsync_start", "get_version"}
     /\ ~ret.pre.was_started
     /\ Accepted)
    => (/\ was_started(Cur)
        /\ ~has_finished(Cur)
        /\ stdout = <<>>
        /\ stderr = <<>>)

\* C11: with a usable executable, a launch or a get_version from any state
\* without a running process (never started, finished with either exit code,
\* cancelled) is accepted and starts from a clean slate: a new process, no
\* exit code, empty stderr.  The launch leaves the driver Running with empty
\* stdout.  get_version is synchronous: when it returns, the process has
\* exited, the handle is dropped again (was_started false) and stdout holds
\* that process's output only; when it times out, the process is left Running.
C11_NewSessionFromAnyOutcome ==
    [][(~was_started(Cur) /\ errors(executable_path) = "")
       => LET n == Len(procs) + 1
          IN /\ LipsyncStart
                => (/\ ret'.outcome = "none"
                    /\ process' = n
                    /\ procs' = Append(procs, NewProc("lipsync"))
                    /\ stdout' = <<>>
                    /\ stderr' = <<>>
                    /\ last_exit_code' = None)
             /\ GetVersion
                => (/\ ret'.outcome \in {"version", "TimeoutExpired"}
                    /\ Len(procs') = n
                    /\ stderr' = <<>>
                    /\ last_exit_code' = None
                    /\ IF ret'.outcome = "version"
                       THEN /\ process' = 0
                            /\ procs'[n].state = "exited"
                            /\ stdout' = StdoutOf("version", procs'[n].code[1])
                            /\ ret'.value = Some(parse_version_info(stdout'))
                       ELSE /\ process' = n
                            /\ procs'[n] = NewProc("version")
                            /\ stdout' = <<>>)]_vars

\* A launch accepted after a session that finished with exit code 1.
C11_Witness ==
    /\ ret.op = "lipsync_start"
    /\ ret.outcome = "none"
    /\ ret.pre.has_finished
    /\ ~ret.pre.was_started
    /\ procs[1].code = Some(1)
    /\ process = 2
    /\ ~has_finished(Cur)
    /\ stdout = <<>>

\* Process i was started by the driver and the driver has neither sent it the
\* termination signal nor let go of it after it exited.
Unsettled(i) ==
    /\ ~procs[i].signalled
    /\ ~(procs[i].state = "exited" /\ ~procs[i].open)

\* C12: the driver never has two processes that it started and has neither
\* observed as exited nor sent the termination signal to; the one such
\* process, if any, is the one self.process refers to.
C12_AtMostOneUnsettledProcess ==
    /\ Cardinality({i \in 1..Len(procs) : Unsettled(i)}) <= 1
    /\ \A i \in 1..Len(procs) : Unsettled(i) => i = process

\* A launch after a get_version that timed out: the version process was sent
\* the signal and still runs while the new process is the only unsettled one.
C12_Witness ==
    /\ Len(procs) = 2
    /\ procs[1].kind = "version"
    /\ procs[1].signalled
    /\ procs[1].state = "running"
    /\ process = 2
    /\ Unsettled(2)
    /\ procs[2].state = "running"

IsPrefix(s, t) == Len(s) <= Len(t) /\ SubSeq(t, 1, Len(s)) = s

HasEvent(lines, t) == \E i \in 1..Len(lines) : IsEvent(lines[i], t)

\* C13 as stated, for the call that follows: once a check_progress call has
\* surfaced a "failure" event, the next check_progress call on the same
\* session does not return a progress value.
C13_NoProgressAfterFailure ==
    [][(FailureRaised /\ was_started(Cur) /\ CheckProgress)
       => ret'.outcome # "progress"]_vars

\* C13: a check_progress call that returns takes the oldest unread lines of
\* the process's stderr in the order they were written and leaves the rest
\* queued in that order; if a "failure" event is among the lines it took it
\* raises, and it returns a progress value only for a "progress" event among
\* them.  The raise does not end the session: a progress line written after
\* the failure line is returned by a later call.
C13_LinesInOrderFailureFirst ==
    [][((CheckProgress \/ CheckProgressResume) /\ was_started(Cur) /\ pc' = "idle")
       => LET unread == procs[process].errPipe
              taken == stderr'
          IN /\ IsPrefix(taken, unread)
             /\ process' # 0
                => procs'[process].errPipe =
                       SubSeq(unread, Len(taken) + 1, Len(unread))
             /\ process' # 0 /\ unread # <<>> => taken = <<Head(unread)>>
             /\ HasEvent(taken, "failure") => ret'.outcome = "RuntimeError"
             /\ ret'.outcome = "progress"
                => (HasEvent(taken, "progress") /\ ~HasEvent(taken, "failure"))]_vars

\* A failure event was surfaced while the process runs and a progress line
\* written after it is the next one in the pipe.
C13_Witness ==
    /\ FailureRaised
    /\ ret.branch = "read"
    /\ was_started(Cur)
    /\ stderr = <<"failBoom">>
    /\ procs[process].errPipe = <<"progress29">>

\* The process of the session last started.
LastProc == procs[Len(procs)]

Terminal ==
    \/ has_finished(Cur)
    \/ FailureRaised
    \/ ret.op = "close_process"

\* C15 as stated: once the session is terminal, no check_progress or cancel
\* call changes stdout, stderr or the exit code.
C15_TerminalOutputFrozen ==
    [][(Terminal /\ (CheckProgress \/ Cancel))
       => UNCHANGED <<stdout, stderr, last_exit_code>>]_vars

\* C15: cancel never changes stdout, stderr or the exit code, and once the
\* handle is dropped (exit code observed, or cancelled) check_progress does
\* not change them either; a launch or get_version that is accepted resets
\* stderr and the exit code.  A failure raised while the process still runs
\* leaves the handle in place, and the next check_progress empties stderr.
C15_ClosedSessionOutputFrozen ==
    [][/\ Cancel => UNCHANGED <<stdout, stderr, last_exit_code>>
       /\ (CheckProgress /\ ~was_started(Cur))
          => UNCHANGED <<stdout, stderr, last_exit_code>>
       /\ ((LipsyncStart \/ GetVersion) /\ ret'.outcome # "AssertionError")
          => (stderr' = <<>> /\ last_exit_code' = None)
       /\ (CheckProgress /\ FailureRaised /\ was_started(Cur))
          => IsPrefix(stderr', procs[process].errPipe)]_vars

\* A cancel on a session that finished with exit code 0 left the collected
\* output and the exit code as they were.
C15_Witness ==
    /\ ret.op = "close_process"
    /\ ret.pre.has_finished
    /\ last_exit_code = Some(0)
    /\ stdout # <<>>
    /\ stderr # <<>>

\* C16 as stated: after every check_progress call stderr has the value it
\* held before the call as a prefix.
C16_StderrOnlyGrows ==
    [][(CheckProgress \/ CheckProgressResume) => IsPrefix(stderr, stderr')]_vars

\* C16: a check_progress call on a started session does not keep what stderr
\* held before it: stderr is emptied on entry and afterwards holds exactly
\* what this call read - every unread line when the exit was observed, the
\* oldest unread line when the process runs, nothing while the call waits or
\* at end of file.
C16_StderrHoldsLastReadOnly ==
    [][/\ (CheckProgress /\ was_started(Cur))
          => LET p == procs[process]
             IN stderr' = IF p.state = "exited" THEN p.errPipe
                          ELSE IF p.errPipe # <<>> THEN <<Head(p.errPipe)>>
                          ELSE <<>>
       /\ CheckProgressResume
          => LET p == procs[process]
             IN /\ stderr = <<>>
                /\ stderr' = IF p.errPipe # <<>> THEN <<Head(p.errPipe)>> ELSE <<>>]_vars

\* Two lines were written and read by two calls; stderr holds the second only.
C16_Witness ==
    /\ ret.op = CheckCall
    /\ ret.branch = "read"
    /\ pc = "idle"
    /\ was_started(Cur)
    /\ procs[process].emitted = 2
    /\ procs[process].errPipe = <<>>
    /\ stderr = <<"progress29">>

\* The driver still holds the process of a version query: communicate() timed
\* out on it (a query that completes drops its handle before it returns).
HoldsTimedOutQuery == was_started(Cur) /\ procs[process].kind = "version"

\* C17: a get_version whose process is still running after the wait raises
\* TimeoutExpired to the caller and records no exit code.  While the driver
\* still holds that process, a launch or a get_version with a usable
\* executable is accepted: the old process is sent the termination signal and
\* let go of, a new one is started, and stdout, stderr and the exit code are
\* those of the new session only.
C17_TimeoutIsFatalForThatCallOnly ==
    [][LET n == Len(procs) + 1
       IN /\ (GetVersion /\ process' # 0)
             => (/\ ret'.outcome = "TimeoutExpired"
                 /\ ret'.value = None
                 /\ HoldsTimedOutQuery'
                 /\ procs'[process'].state = "running"
                 /\ ~has_finished(Cur)')
          /\ (HoldsTimedOutQuery /\ errors(executable_path) = "")
             => (/\ LipsyncStart
                    => (/\ ret'.outcome = "none"
                        /\ process' = n
                        /\ procs'[n] = NewProc("lipsync")
                        /\ procs'[process] = Dropped(terminate(procs[process]))
                        /\ stdout' = <<>>
                        /\ stderr' = <<>>
                        /\ last_exit_code' = None)
                 /\ GetVersion
                    => (/\ ret'.outcome \in {"version", "TimeoutExpired"}
                        /\ Len(procs') = n
                        /\ procs'[process] = Dropped(terminate(procs[process]))
                        /\ stderr' = <<>>
                        /\ last_exit_code' = None
                        /\ ret'.outcome = "version"
                           => (/\ process' = 0
                               /\ stdout' = StdoutOf("version", procs'[n].code[1])
                               /\ ret'.value = Some(parse_version_info(stdout')))))]_vars

\* A get_version that returned the version right after one that timed out.
C17_Witness ==
    /\ ret.op = "get_version"
    /\ ret.outcome = "version"
    /\ ret.value = Some(<<"1", ".", "1", "3", ".", "0">>)
    /\ ret.pre.was_started
    /\ procs[1].kind = "version"
    /\ procs[1].signalled
    /\ ~procs[1].open

\* C18: after a successful launch, with a tool that exits in the end and a
\* caller that calls check_progress as long as has_finished is false, in the
\* end has_finished is true or check_progress has raised.
C18_PollingLoopEnds == Launched ~> (has_finished(Cur) \/ CheckRaised)

\* The loop ran until a poll saw exit code 0, after the tool had written all
\* its lines and the calls had read them one by one.
C18_Witness ==
    /\ has_finished(Cur)
    /\ last_exit_code = Some(0)
    /\ ret.op = CheckCall
    /\ ret.outcome = "none"
    /\ ret.branch = "exited"
    /\ stderr = <<>>
    /\ stdout = <<"mouthCues">>

----------------------------------------------------------------------------
(* Properties of the cue processor *)

\* The counts of the four passes of the second optimize_cues call.
SecondRun == SubSeq(report, 5, 8)

\* C19: a second optimize_cues call with the same parameters on the output
\* of the first modifies nothing: each of its four passes returns 0.
C19_SecondRunCountsZero ==
    (passes = 8 /\ cue_exc = "none") => SecondRun = <<0, 0, 0, 0>>

\* C20: after trim_long_cues every cue whose key is not 'X' has
\* end - start <= max_duration, and every 'X' cue has its start and end
\* unchanged.
C20_TrimBoundsDuration ==
    [][TrimLongCues
       => \A i \in 1..Len(cue_frames) :
             IF cue_frames[i].key = "X"
             THEN /\ cue_frames'[i].start = cue_frames[i].start
                  /\ cue_frames'[i].end = cue_frames[i].end
             ELSE cue_frames'[i].end - cue_frames'[i].start <= min_cue_duration]_vars

----------------------------------------------------------------------------
\* A pass of the given number (1..4) of either call has just returned.
AfterPass(k) == cue_exc = "none" /\ passes \in {k, k + 4}

\* C21: after the ensure-frame-intersection pass every cue covers at least
\* one integer frame boundary under the frame_cfg.
C21_EveryCueIntersectsFrame ==
    AfterPass(2) =>
        \A i \in 1..Len(cue_frames) : intersects_frame(cue_frames[i], frame_cfg)

\* The cues that round_ends_down leaves alone at line 66: they cover a
\* frame, and the frame at or after the start is the frame at or before the
\* end.
Degenerate(cf, cfg) ==
    intersects_frame(cf, cfg) /\ start_frame_right(cf, cfg) = end_frame_left(cf, cfg)

\* C22: round_ends_down only shrinks: no cue's end is later afterwards, and
\* a cue that the degenerate-overlap guard leaves alone keeps its end.
C22_RoundEndsDownOnlyShrinks ==
    [][RoundEndsDown
       => \A i \in 1..Len(cue_frames) :
             /\ cue_frames'[i].end <= cue_frames[i].end
             /\ Degenerate(cue_frames[i], frame_cfg)
                   => cue_frames'[i].end = cue_frames[i].end]_vars

\* The time of the first frame at or after the start of the cue.
start_frame_time(cf, cfg) == cp_frame2time(start_frame_right(cf, cfg), cfg)

\* C23: after the blend-in pass, for every cue other than the first,
\* start - blend_in is at or after the time of the previous cue's rounded-up
\* start frame.
C23_BlendInAfterPreviousStartFrame ==
    AfterPass(4) =>
        \A i \in 2..Len(cue_frames) :
            cue_frames[i].start - cue_frames[i].blend_in
                >= start_frame_time(cue_frames[i - 1], frame_cfg)

\* ensure_frame_intersection takes the branch of line 48 for the cue: it
\* covers no frame and its start is nearer to a frame than its end.
ExpandsStart(cf, cfg) ==
    /\ ~intersects_frame(cf, cfg)
    /\ fl(start_frame_float(cf, cfg) - fl(start_frame_left(cf, cfg) * Ticks))
         < fl(fl(end_frame_right(cf, cfg) * Ticks) - end_frame_float(cf, cfg))

\* C24: no pass changes the number, the order or the keys of the cues; trim,
\* round-ends-down and blend-in change no start; ensure-frame-intersection
\* changes the start only of a cue that it expands on the start side, to the
\* frame at or before the start, and leaves the end of that cue alone.
C24_PassesKeepCuesAndStarts ==
    [][CueNext
       => /\ Len(cue_frames') = Len(cue_frames)
          /\ \A i \in 1..Len(cue_frames) :
                /\ cue_frames'[i].key = cue_frames[i].key
                /\ cue_frames'[i].start # cue_frames[i].start
                      => /\ EnsureFrameIntersection
                         /\ ExpandsStart(cue_frames[i], frame_cfg)
                         /\ cue_frames'[i].start < cue_frames[i].start
                         /\ cue_frames'[i].start
                              = cp_frame2time(start_frame_left(cue_frames[i], frame_cfg),
                                              frame_cfg)
                         /\ cue_frames'[i].end = cue_frames[i].end]_vars

\* An ensure-frame-intersection pass has just moved the start of the only
\* cue onto a frame: the pass counted the cue, which now starts on a frame
\* and ends between two frames.
C24_Witness ==
    /\ AfterPass(2)
    /\ Len(cue_frames) = 1
    /\ report[Len(report)] = 1
    /\ intersects_frame(cue_frames[1], frame_cfg)
    /\ start_frame_float(cue_frames[1], frame_cfg) % Ticks = 0
    /\ end_frame_float(cue_frames[1], frame_cfg) % Ticks # 0

\* Each cue starts at or after the end of the cue before it.
NonOverlapping(cfs) ==
    \A i \in 2..Len(cfs) : cfs[i].start >= cfs[i - 1].end

\* C28: for a time-ordered, non-overlapping cue list optimize_cues never
\* trips the assertion of set_blend_in_times: after the first three passes
\* every cue starts at or after the time of the previous cue's rounded-up
\* start frame, and every blend_in that the fourth pass assigns lies between
\* 0 and blend_in_time.
C28_BlendInAssertionHolds ==
    (passes = 0 /\ NonOverlapping(cue_frames))
    => LET before == optimize_cues_steps(3, cue_frames, frame_cfg,
                                         min_cue_duration, blend_in_time)
           after == set_blend_in_times(before.cue_frames, frame_cfg, blend_in_time)
       IN before.exc = "none"
          => /\ after.exc = "none"
             /\ \A i \in 2..Len(cue_frames) :
                   before.cue_frames[i].start
                     >= start_frame_time(before.cue_frames[i - 1], frame_cfg)
             /\ \A i \in 1..Len(cue_frames) :
                   /\ after.cue_frames[i].blend_in >= 0
                   /\ after.cue_frames[i].blend_in <= blend_in_time

\* C29: a second optimize_cues call with the same parameters leaves the
\* start, the end and the blend_in of every cue as the first call left them.
C29_SecondRunKeepsValues ==
    (passes = 4 /\ cue_exc = "none")
    => optimize_cues(cue_frames, frame_cfg, min_cue_duration, blend_in_time).cue_frames
         = cue_frames

\* What the first two passes establish for a cue: it does not end before it
\* starts, and it covers at least one integer frame.
Visible(cf, cfg) == cf.end >= cf.start /\ intersects_frame(cf, cfg)

\* round_ends_down keeps what it finds: a cue that has end >= start and
\* covers an integer frame before the pass has both after it.
RoundEndsDownKeepsVisible ==
    [][RoundEndsDown
       => \A i \in 1..Len(cue_frames) :
             Visible(cue_frames[i], frame_cfg)
                => Visible(cue_frames'[i], frame_cfg)]_vars

\* C30: after round_ends_down has run on the output of
\* ensure_frame_intersection, every cue has end >= start and covers at least
\* one integer frame.
C30_VisibleAfterRoundEndsDown ==
    AfterPass(3) =>
        \A i \in 1..Len(cue_frames) : Visible(cue_frames[i], frame_cfg)

----------------------------------------------------------------------------
(* Properties of the parser *)

\* The lines of the text that are not empty, in their order.
NonEmptyLines(text) == SelectSeq(text, LAMBDA l : l # "")

\* The mapping that a line holds: that of its JSON object, and the empty
\* mapping when the line is malformed.
MappingOfLine(line) ==
    IF json_loads_document(line).exc = "none" /\ json_loads_document(line).kind = "object"
    THEN json_loads_document(line).value
    ELSE EmptyMapping

\* C25: for every stderr text parse_status_infos returns exactly one mapping
\* per non-empty line, in line order; a malformed line yields an empty
\* mapping, and the call never raises.
C25_OneMappingPerNonEmptyLine ==
    ret.op = "parse_status_infos"
    => /\ ret.outcome = "none"
       /\ Len(ret.value[1]) = Len(NonEmptyLines(stderr))
       /\ \A i \in 1..Len(NonEmptyLines(stderr)) :
             ret.value[1][i] = MappingOfLine(NonEmptyLines(stderr)[i])

\* C26: parse_lipsync_json never raises: for a text that is empty, not
\* JSON, or JSON without the top-level mouthCues array it returns an empty
\* sequence, otherwise the entries of the mouthCues array.
C26_LipsyncJsonNeverRaises ==
    ret.op = "parse_lipsync_json"
    => /\ ret.outcome = "none"
       /\ ret.value = Some(IF /\ json_loads(stdout).exc = "none"
                              /\ json_loads(stdout).kind = "object"
                              /\ "mouthCues" \in DOMAIN json_loads(stdout).value
                           THEN json_loads(stdout).value.mouthCues
                           ELSE <<>>)

\* The text is a MAJOR.MINOR.PATCH token: digits, a dot, digits, a dot,
\* digits.
IsVersionToken(s) ==
    \E p, q \in 1..Len(s) :
        /\ 1 < p /\ p + 1 < q /\ q < Len(s)
        /\ \A i \in 1..Len(s) :
              IF i \in {p, q} THEN s[i] = "." ELSE s[i] \in DigitChars

\* The token s stands in the text from position j on, after the word
\* "version" and whitespace, and is not followed by a further digit.
FollowsVersion(text, j, s) ==
    /\ j + Len(s) - 1 <= Len(text)
    /\ SubSeq(text, j, j + Len(s) - 1) = s
    /\ ~(j + Len(s) <= Len(text) /\ text[j + Len(s)] \in DigitChars)
    /\ \E i \in 1..(j - 2) :
          /\ text[i] = "version"
          /\ \A k \in (i + 1)..(j - 1) : text[k] \in SpaceChars

\* The positions of the text at which some version token follows "version"
\* and whitespace.
VersionPositions(text) ==
    {j \in 1..Len(text) :
        \E n \in 5..(Len(text) - j + 1) :
            /\ IsVersionToken(SubSeq(text, j, j + n - 1))
            /\ FollowsVersion(text, j, SubSeq(text, j, j + n - 1))}

\* C27: parse_version_info returns the MAJOR.MINOR.PATCH token that follows
\* the word "version" and whitespace (the first one of the text), and the
\* empty string for every text without such a token.
C27_VersionTokenAfterWord ==
    ret.op = "parse_version_info"
    => /\ ret.outcome = "none"
       /\ IF VersionPositions(stdout) = {}
          THEN ret.value = Some(<<>>)
          ELSE /\ IsVersionToken(ret.value[1])
               /\ \E j \in VersionPositions(stdout) :
                     /\ FollowsVersion(stdout, j, ret.value[1])
                     /\ \A k \in VersionPositions(stdout) : j <= k

\* parse_version_info has found the version in the banner of the tool.
C27_Witness ==
    /\ ret.op = "parse_version_info"
    /\ stdout = StdoutOf("version", 0)
    /\ ret.value = Some(<<"1", ".", "1", "3", ".", "0">>)

----------------------------------------------------------------------------
\* Every cue of the list ends at or after its start.
EndsAfterStart(cfs) == \A i \in 1..Len(cfs) : cfs[i].end >= cfs[i].start

\* C31: the assertion of ensure_frame_intersection holds for every cue that
\* covers no frame: when every cue has end >= start, the pass raises no
\* AssertionError, and each cue that covers no integer frame starts strictly
\* after the frame at or before its start and ends strictly before the frame
\* at or after its end.
C31_FrameIntersectionAssertionHolds ==
    [][(EnsureFrameIntersection /\ EndsAfterStart(cue_frames))
       => /\ cue_exc' = "none"
          /\ \A i \in 1..Len(cue_frames) :
                ~intersects_frame(cue_frames[i], frame_cfg)
                => /\ start_frame_float(cue_frames[i], frame_cfg)
                        > start_frame_left(cue_frames[i], frame_cfg) * Ticks
                   /\ end_frame_float(cue_frames[i], frame_cfg)
                        < end_frame_right(cue_frames[i], frame_cfg) * Ticks]_vars

\* The ensure-frame-intersection pass of the first call has made the
\* assertion for two cues and passed it: it counted both cues of the list.
C31_Witness ==
    /\ passes = 2
    /\ cue_exc = "none"
    /\ Len(cue_frames) = 2
    /\ report[2] = 2
    /\ EndsAfterStart(cue_frames)

----------------------------------------------------------------------------
\* The cues start in the order of the list.
SortedByStart(cfs) ==
    \A i \in 2..Len(cfs) : cfs[i].start >= cfs[i - 1].start

\* What the first k passes of optimize_cues make of the cue list of the
\* state, which is the list given to the CueProcessor when passes = 0.
Optimized(k) ==
    optimize_cues_steps(k, cue_frames, frame_cfg, min_cue_duration, blend_in_time)

\* The cue list is given to optimize_cues as C32 takes it: every cue ends at
\* or after its start and starts at or after the end of the cue before it.
OrderedInput ==
    passes = 0 /\ EndsAfterStart(cue_frames) /\ NonOverlapping(cue_frames)

\* The time of one frame.
frame_time(cfg) == frame2time(Ticks, cfg.fps, cfg.fps_base)

----------------------------------------------------------------------------
\* The gaps that ensure_frame_intersection compares: from the frame at or
\* before the start to the start, and from the end to the frame at or after
\* the end.
start_gap(cf, cfg) ==
    fl(start_frame_float(cf, cfg) - fl(start_frame_left(cf, cfg) * Ticks))

end_gap(cf, cfg) ==
    fl(fl(end_frame_right(cf, cfg) * Ticks) - end_frame_float(cf, cfg))

\* The pass assigns as lines 46-49 say: a cue that covers a frame is left
\* as it is; of a cue that does not, the start becomes the time of the frame
\* at or before it when the start gap is strictly smaller than the end gap,
\* otherwise the end becomes the time of the frame at or after it, and the
\* other endpoint and the blend_in stay.
EnsureAssignsNearerSide ==
    [][(EnsureFrameIntersection /\ EndsAfterStart(cue_frames))
       => \A i \in 1..Len(cue_frames) :
             LET cf == cue_frames[i]
                 new == cue_frames'[i]
             IN IF intersects_frame(cf, frame_cfg) THEN new = cf
                ELSE IF start_gap(cf, frame_cfg) < end_gap(cf, frame_cfg)
                THEN new = [cf EXCEPT !.start =
                              cp_frame2time(start_frame_left(cf, frame_cfg), frame_cfg)]
                ELSE new = [cf EXCEPT !.end =
                              cp_frame2time(end_frame_right(cf, frame_cfg), frame_cfg)]]_vars

\* C33: the ensure-frame-intersection pass leaves every cue that already
\* covers a frame unchanged; of a cue that does not, it moves exactly one
\* endpoint onto the adjacent frame on the nearer side: the start onto the
\* frame at or before it when the start gap is strictly smaller than the end
\* gap, otherwise the end onto the frame at or after it.
C33_MovesNearerEndpointToFrame ==
    [][(EnsureFrameIntersection /\ EndsAfterStart(cue_frames))
       => \A i \in 1..Len(cue_frames) :
             LET cf == cue_frames[i]
                 new == cue_frames'[i]
             IN IF intersects_frame(cf, frame_cfg) THEN new = cf
                ELSE IF start_gap(cf, frame_cfg) < end_gap(cf, frame_cfg)
                THEN /\ new.start # cf.start
                     /\ new.end = cf.end
                     /\ start_frame_float(new, frame_cfg)
                          = start_frame_left(cf, frame_cfg) * Ticks
                ELSE /\ new.end # cf.end
                     /\ new.start = cf.start
                     /\ end_frame_float(new, frame_cfg)
                          = end_frame_right(cf, frame_cfg) * Ticks]_vars

----------------------------------------------------------------------------
(* Properties of the session state *)

\* C34: was_started stays true after the process has finished: a
\* check_progress call on a started session that observes the exit of the
\* process, so that has_finished becomes true, leaves was_started true.
C34_StartedAfterFinished ==
    [][((CheckProgress \/ CheckProgressResume)
        /\ was_started(Cur) /\ ~has_finished(Cur)
        /\ last_exit_code' # None)
       => process' # 0]_vars

----------------------------------------------------------------------------
(* Properties of the baking context *)

====
